---- MODULE Spec2Model ----
(***************************************************************************)
(* catmullRom(path, options) of src/src/catmullRom.ts as a state machine.  *)
(*                                                                         *)
(* A call is one behaviour: Init draws the path and the options, then the  *)
(* call either passes a short path through, throws the dimension error, or *)
(* sets its locals up and runs the segment loop, one iteration per step,   *)
(* and returns.                                                            *)
(*                                                                         *)
(* Numbers.  A JavaScript number is modelled as a pair <<n, d>>: the exact *)
(* rational n/d in lowest terms when d > 0, NaN when <<0, 0>>, +Infinity   *)
(* and -Infinity when <<1, 0>> and <<-1, 0>>.  The value undefined (a read *)
(* past the end of an array, an option that was not given) is <<>>.        *)
(* Arithmetic is exact: rounding of doubles is not modelled, except that   *)
(* Math.sqrt returns the root rounded down to an integer (exact on the     *)
(* perfect squares).                                                       *)
(***************************************************************************)
EXTENDS Integers, Sequences, FiniteSets, TLC

(***************************************************************************)
(* Bounds of the model.                                                    *)
(***************************************************************************)
MaxLen == 3
MaxSamples == 2

(***************************************************************************)
(* Numbers                                                                 *)
(***************************************************************************)
Undefined == <<>>
NaN == <<0, 0>>
PosInf == <<1, 0>>
NegInf == <<-1, 0>>

IAbs(n) == IF n < 0 THEN -n ELSE n

RECURSIVE Gcd(_, _)
Gcd(a, b) == IF b = 0 THEN a ELSE Gcd(b, a % b)

\* The number n/d, d # 0, in lowest terms with a positive denominator.
Rat(n, d) ==
  LET g == Gcd(IAbs(n), IAbs(d))
      s == IF d < 0 THEN -1 ELSE 1
  IN  <<s * (n \div g), s * (d \div g)>>

Num(n) == <<n, 1>>

IsFinite(x) == Len(x) = 2 /\ x[2] > 0
\* undefined converts to NaN in arithmetic
IsNaN(x) == Len(x) # 2 \/ (x[1] = 0 /\ x[2] = 0)
IsInf(x) == Len(x) = 2 /\ x[2] = 0 /\ x[1] # 0
Sign(x) == IF x[1] > 0 THEN 1 ELSE IF x[1] < 0 THEN -1 ELSE 0

Neg(x) == IF IsNaN(x) THEN NaN ELSE <<-x[1], x[2]>>

Add(x, y) ==
  IF IsNaN(x) \/ IsNaN(y) THEN NaN
  ELSE IF IsInf(x) THEN (IF IsInf(y) /\ y # x THEN NaN ELSE x)
  ELSE IF IsInf(y) THEN y
  ELSE Rat(x[1] * y[2] + y[1] * x[2], x[2] * y[2])

Sub(x, y) == Add(x, Neg(y))

Mul(x, y) ==
  IF IsNaN(x) \/ IsNaN(y) THEN NaN
  ELSE IF IsInf(x) \/ IsInf(y)
       THEN (IF Sign(x) * Sign(y) = 0 THEN NaN ELSE <<Sign(x) * Sign(y), 0>>)
  ELSE Rat(x[1] * y[1], x[2] * y[2])

Div(x, y) ==
  IF IsNaN(x) \/ IsNaN(y) THEN NaN
  ELSE IF IsInf(y) THEN (IF IsInf(x) THEN NaN ELSE Num(0))
  ELSE IF y[1] = 0 THEN (IF Sign(x) = 0 THEN NaN ELSE <<Sign(x), 0>>)
  ELSE IF IsInf(x) THEN <<Sign(x) * Sign(y), 0>>
  ELSE Rat(x[1] * y[2], x[2] * y[1])

\* x < y of JavaScript: false when either side is NaN
Less(x, y) ==
  IF IsNaN(x) \/ IsNaN(y) THEN FALSE
  ELSE IF IsInf(x) \/ IsInf(y)
       THEN (x # y) /\ (x = NegInf \/ y = PosInf)
  ELSE x[1] * y[2] < y[1] * x[2]

\* x <= y of JavaScript
LessEq(x, y) == Less(x, y) \/ (~IsNaN(x) /\ x = y)

\* Math.abs
Abs(x) == IF IsNaN(x) THEN NaN ELSE <<IAbs(x[1]), x[2]>>

RECURSIVE ISqrtFrom(_, _)
ISqrtFrom(n, r) == IF (r + 1) * (r + 1) > n THEN r ELSE ISqrtFrom(n, r + 1)

\* Math.sqrt
Sqrt(x) ==
  IF IsNaN(x) \/ Sign(x) < 0 THEN NaN
  ELSE IF IsInf(x) THEN PosInf
  ELSE Num(ISqrtFrom(x[1] \div x[2], 0))

\* Math.pow(x, a) for the exponents 0, 1/2 and 1: pow(x, 0) is 1 for every x,
\* NaN included.
Pow(x, a) ==
  IF a = Num(0) THEN Num(1)
  ELSE IF IsNaN(x) \/ IsNaN(a) THEN NaN
  ELSE IF a = Num(1) THEN x
  ELSE Sqrt(x)

\* a[i] of JavaScript, i counted from 0: undefined past the end
At(a, i) == IF i >= 0 /\ i < Len(a) THEN a[i + 1] ELSE Undefined

\* a.slice(0, k)
Slice(a, k) == SubSeq(a, 1, IF k < Len(a) THEN k ELSE Len(a))

Min(a, b) == IF a < b THEN a ELSE b

(***************************************************************************)
(* Optional values of the result: absent (undefined) or present.           *)
(***************************************************************************)
Absent == <<>>
Present(x) == <<x>>
IsPresent(o) == Len(o) = 1
Push(o, x) == <<Append(o[1], x)>>

(***************************************************************************)
(* The helpers of catmullRom.ts                                            *)
(***************************************************************************)
\* a value that a condition takes as true: not undefined, NaN or 0
Truthy(x) == ~IsNaN(x) /\ x[1] # 0

\* types.ts: array.length >= length
isMinSizeArray(array, length) == LessEq(length, Num(Len(array)))

RECURSIVE SumSq(_, _, _)
SumSq(a, b, k) ==
  IF k = 0 THEN Num(0)
  ELSE LET d == Sub(b[k], a[k]) IN Add(SumSq(a, b, k - 1), Mul(d, d))

\* euclidean distance over the coordinates both points have
distance(a, b) == Sqrt(SumSq(a, b, Min(Len(a), Len(b))))

extrapolatePoint(p0, p1, dim, epsilon) ==
  [c \in 1..dim |-> Add(At(p0, c - 1), Sub(At(p0, c - 1), At(p1, c - 1)))]

\* a lerp that always divides
lerpNeverDegenerate(ta, tb, epsilon) == FALSE

\* the guard of lerpTimed: a degenerate interval is not divided by
lerpDegenerate(ta, tb, epsilon) == Less(Abs(Sub(tb, ta)), epsilon)

lerpTimed(a, b, ta, tb, t, epsilon) ==
  LET denom == Sub(tb, ta)
      u == Div(Sub(t, ta), denom)
  IN  IF lerpDegenerate(ta, tb, epsilon) THEN a
      ELSE Add(Mul(Sub(Num(1), u), a), Mul(u, b))

lerpVecTimed(A, B, ta, tb, t, dim, epsilon) ==
  [c \in 1..dim |-> lerpTimed(At(A, c - 1), At(B, c - 1), ta, tb, t, epsilon)]

catmullRomAt(p0, p1, p2, p3, t0, t1, t2, t3, t, dim, epsilon) ==
  LET A1 == lerpVecTimed(p0, p1, t0, t1, t, dim, epsilon)
      A2 == lerpVecTimed(p1, p2, t1, t2, t, dim, epsilon)
      A3 == lerpVecTimed(p2, p3, t2, t3, t, dim, epsilon)
      B1 == lerpVecTimed(A1, A2, t0, t2, t, dim, epsilon)
      B2 == lerpVecTimed(A2, A3, t1, t3, t, dim, epsilon)
  IN  lerpVecTimed(B1, B2, t1, t2, t, dim, epsilon)

(***************************************************************************)
(* catmullRom, piece by piece.  opts is the options record after its       *)
(* defaults: samples (an integer), alpha and dimension (a number or        *)
(* Undefined), parametrization, closed, endpointMode, epsilon,             *)
(* includeOriginal, includeMeta.                                           *)
(***************************************************************************)
\* path.length < 2: the path is passed through
tooShort(path) == Len(path) < 2

\* a pass-through that reports no segment start
passThroughNoIndex(path, opts) ==
  [status |-> "returned",
   points |-> path,
   refs |-> [j \in 1..Len(path) |-> j],
   meta |-> IF opts.includeMeta THEN Present(<<>>) ELSE Absent,
   segmentStartIndices |-> IF opts.includeMeta THEN Present(<<>>) ELSE Absent]

\* path.slice() shares the points of the path: refs[j] = j says that
\* points[j] is the very object path[j], 0 that it is newly allocated
passThrough(path, opts) ==
  [status |-> "returned",
   points |-> path,
   refs |-> [j \in 1..Len(path) |-> j],
   meta |-> IF opts.includeMeta THEN Present(<<>>) ELSE Absent,
   segmentStartIndices |-> IF opts.includeMeta THEN Present(<<0>>) ELSE Absent]

\* a check of the first point alone
dimensionErrorFirst(path, opts) ==
  /\ Truthy(opts.dimension)
  /\ ~isMinSizeArray(path[1], opts.dimension)

\* check every point has at least 'dimension' coordinates
dimensionError(path, opts) ==
  /\ Truthy(opts.dimension)
  /\ ~(\A j \in 1..Len(path) : isMinSizeArray(path[j], opts.dimension))

thrown ==
  [status |-> "thrown", points |-> <<>>, refs |-> <<>>,
   meta |-> Absent, segmentStartIndices |-> Absent]

noResult ==
  [status |-> "none", points |-> <<>>, refs |-> <<>>,
   meta |-> Absent, segmentStartIndices |-> Absent]

\* an alpha of 0 taken as not given
resolveAlphaFalsy(alpha, parametrization) ==
  IF Truthy(alpha) THEN alpha
  ELSE CASE parametrization = "uniform" -> Num(0)
         [] parametrization = "chordal" -> Num(1)
         [] OTHER -> Rat(1, 2)

resolveAlpha(alpha, parametrization) ==
  IF alpha # Undefined THEN alpha
  ELSE CASE parametrization = "uniform" -> Num(0)
         [] parametrization = "chordal" -> Num(1)
         [] OTHER -> Rat(1, 2)

\* dimension ?? path[0].length
effectiveDim(path, dimension) ==
  IF dimension # Undefined THEN dimension[1] ELSE Len(path[1])

\* points copied whole, not clamped
clampPointsWhole(path, dim) == [j \in 1..Len(path) |-> path[j]]

\* path.map((p) => p.slice(0, dim))
clampPoints(path, dim) == [j \in 1..Len(path) |-> Slice(path[j], dim)]

padPoints(pts, closed, endpointMode, dim, epsilon) ==
  LET n == Len(pts) IN
  IF closed THEN pts
  ELSE IF endpointMode = "duplicate" THEN <<pts[1]>> \o pts \o <<pts[n]>>
  ELSE <<extrapolatePoint(pts[1], pts[2], dim, epsilon)>> \o pts
       \o <<extrapolatePoint(pts[n], pts[n - 1], dim, epsilon)>>

\* a closed index clamped to the ends instead of wrapped
idxClamped(i, n, closed) ==
  IF closed THEN (IF i < 0 THEN 0 ELSE IF i >= n THEN n - 1 ELSE i) ELSE i

idx(i, n, closed) == IF closed THEN (i + n) % n ELSE i

\* the indices in paddedPts of the window (p0, p1, p2, p3) of segment i
windowIndices(i, n, closed) ==
  IF closed
  THEN <<idx(i - 1, n, closed), idx(i, n, closed),
         idx(i + 1, n, closed), idx(i + 2, n, closed)>>
  ELSE <<i, i + 1, i + 2, i + 3>>

\* chord length parameters t0..t3
rawKnots(p0, p1, p2, p3, finalAlpha) ==
  LET t0 == Num(0)
      t1 == Add(t0, Pow(distance(p0, p1), finalAlpha))
      t2 == Add(t1, Pow(distance(p1, p2), finalAlpha))
      t3 == Add(t2, Pow(distance(p2, p3), finalAlpha))
  IN  <<t0, t1, t2, t3>>

\* avoid math errors due to coincident points: t0, dt1, dt2, dt3
guardKnots(t, epsilon) ==
  LET dt1 == IF Less(Sub(t[2], t[1]), epsilon) THEN Add(t[1], epsilon) ELSE t[2]
      dt2 == IF Less(Sub(t[3], t[2]), epsilon) THEN Add(t[2], epsilon) ELSE t[3]
      dt3 == IF Less(Sub(t[4], t[3]), epsilon) THEN Add(t[3], epsilon) ELSE t[4]
  IN  <<t[1], dt1, dt2, dt3>>

sampleT(k, s, samples) ==
  Add(k[2], Div(Mul(Num(s), Sub(k[3], k[2])), Num(samples)))

sampleU(k, t) == Div(Sub(t, k[2]), Sub(k[3], k[2]))

\* the intervals (ta, tb) of the six timed lerps of catmullRomAt (A2 and C
\* share theirs)
lerpIntervals(k) ==
  {<<k[1], k[2]>>, <<k[2], k[3]>>, <<k[3], k[4]>>,
   <<k[1], k[3]>>, <<k[2], k[4]>>}

\* the denominators the lerps of one sample divide by
lerpDivisors(k, dim, epsilon) ==
  IF dim <= 0 THEN {}
  ELSE {Sub(iv[2], iv[1]) :
          iv \in {w \in lerpIntervals(k) : ~lerpDegenerate(w[1], w[2], epsilon)}}

\* the first real point, pushed before the samples
prefixMeta == [segment |-> 0, u |-> Num(0)]

\* the last real point tagged with the segment after the final one
suffixMetaNext(i) == [segment |-> i + 1, u |-> Num(1)]

\* the last real point, pushed after the samples of the final segment i
suffixMeta(i) == [segment |-> i, u |-> Num(1)]

\* the locals after lines 31-79
setup(path, opts) ==
  LET dim == effectiveDim(path, opts.dimension)
      pts == clampPoints(path, dim)
      prefix == ~opts.closed /\ opts.includeOriginal
  IN  [finalAlpha |-> resolveAlpha(opts.alpha, opts.parametrization),
       dim |-> dim,
       pts |-> pts,
       n |-> Len(pts),
       paddedPts |-> padPoints(pts, opts.closed, opts.endpointMode, dim, opts.epsilon),
       i |-> 0,
       out |-> IF prefix THEN <<Slice(pts[1], dim)>> ELSE <<>>,
       meta |-> IF ~opts.includeMeta THEN Absent
                ELSE IF prefix THEN Present(<<prefixMeta>>)
                ELSE Present(<<>>),
       segmentStartIndices |-> IF ~opts.includeMeta THEN Absent
                               ELSE IF prefix THEN Present(<<0>>)
                               ELSE Present(<<>>),
       knots |-> <<>>,
       windows |-> <<>>,
       divisors |-> {}]

\* the closing segment forgotten
lastSegmentOpen(n, closed) == n - 1

lastSegment(n, closed) == IF closed THEN n ELSE n - 1

\* one iteration of the segment loop, lines 83-127
segment(opts, L) ==
  LET w == windowIndices(L.i, L.n, opts.closed)
      p0 == At(L.paddedPts, w[1])
      p1 == At(L.paddedPts, w[2])
      p2 == At(L.paddedPts, w[3])
      p3 == At(L.paddedPts, w[4])
      k == guardKnots(rawKnots(p0, p1, p2, p3, L.finalAlpha), opts.epsilon)
      ts == [s \in 1..opts.samples |-> sampleT(k, s, opts.samples)]
      cs == [s \in 1..opts.samples |->
               catmullRomAt(p0, p1, p2, p3, k[1], k[2], k[3], k[4], ts[s],
                            L.dim, opts.epsilon)]
      ms == [s \in 1..opts.samples |-> [segment |-> L.i, u |-> sampleU(k, ts[s])]]
      suffix == ~opts.closed /\ L.i = lastSegment(L.n, opts.closed) - 1
                /\ opts.includeOriginal
  IN  [L EXCEPT
         !.i = L.i + 1,
         !.out = L.out \o cs
                 \o (IF suffix THEN <<Slice(L.pts[L.n], L.dim)>> ELSE <<>>),
         !.meta = IF ~opts.includeMeta THEN Absent
                  ELSE Present(L.meta[1] \o ms
                         \o (IF suffix THEN <<suffixMeta(L.i)>>
                             ELSE <<>>)),
         !.segmentStartIndices =
                  IF ~opts.includeMeta THEN Absent
                  ELSE Push(L.segmentStartIndices, Len(L.out)),
         !.knots = Append(L.knots, k),
         !.windows = Append(L.windows,
                            [indices |-> w, points |-> <<p0, p1, p2, p3>>]),
         !.divisors = IF opts.samples >= 1
                      THEN L.divisors \cup lerpDivisors(k, L.dim, opts.epsilon)
                      ELSE L.divisors]

\* lines 130-134: every returned point is an array the call allocated
returnResult(opts, L) ==
  [status |-> "returned",
   points |-> L.out,
   refs |-> [j \in 1..Len(L.out) |-> 0],
   meta |-> IF opts.includeMeta THEN L.meta ELSE Absent,
   segmentStartIndices |-> IF opts.includeMeta THEN L.segmentStartIndices ELSE Absent]

RECURSIVE segmentLoop(_, _)
segmentLoop(opts, L) ==
  IF L.i < lastSegment(L.n, opts.closed) THEN segmentLoop(opts, segment(opts, L))
  ELSE L

\* the whole call as a function of its arguments
catmullRom(path, opts) ==
  IF tooShort(path) THEN passThrough(path, opts)
  ELSE IF dimensionError(path, opts) THEN thrown
  ELSE returnResult(opts, segmentLoop(opts, setup(path, opts)))

(***************************************************************************)
(* The inputs.  Two families of calls, both valid, each with its own       *)
(* specification: Spec varies the shape of the path and of the result      *)
(* (short and ragged paths, every structural option), SpecCurve varies the *)
(* curve (coincident points, alpha, parametrization, epsilon).             *)
(***************************************************************************)
SeqsUpTo(S, lo, hi) == UNION {[1..m -> S] : m \in lo..hi}

ShapePoints == {<<Num(0)>>, <<Num(0), Num(0)>>, <<Num(0), Num(4)>>}
CurvePoints == {<<Num(0), Num(0)>>, <<Num(4), Num(0)>>, <<Num(4), Num(4)>>}

\* the paths of 1..MaxLen points that start at the origin
CurvePaths == {q \in SeqsUpTo(CurvePoints, 1, MaxLen) : q[1] = <<Num(0), Num(0)>>}

Alphas == {Num(0), Rat(1, 2), Num(1)}
Parametrizations == {"uniform", "chordal", "centripetal", "cubic"}
\* alpha with the names, and each alpha given beside a name of another alpha
AlphaChoices ==
  {<<Undefined, q>> : q \in Parametrizations}
    \cup {<<Num(0), "chordal">>, <<Rat(1, 2), "uniform">>, <<Num(1), "centripetal">>}

ShapeOptions ==
  [samples : 1..MaxSamples,
   alpha : {Undefined},
   parametrization : {"centripetal"},
   closed : BOOLEAN,
   dimension : {Undefined, Num(1), Num(2)},
   endpointMode : {"duplicate", "extrapolate"},
   epsilon : {Num(1)},
   includeOriginal : BOOLEAN,
   includeMeta : BOOLEAN]

\* closed, or open with either endpoint mode
Ends == {<<TRUE, "duplicate">>, <<FALSE, "duplicate">>, <<FALSE, "extrapolate">>}

CurveOptions ==
  {[samples |-> k, alpha |-> a[1], parametrization |-> a[2], closed |-> e[1],
    dimension |-> d, endpointMode |-> e[2], epsilon |-> eps,
    includeOriginal |-> TRUE, includeMeta |-> TRUE] :
     k \in 1..MaxSamples, a \in AlphaChoices, e \in Ends,
     d \in {Undefined, Num(3)}, eps \in {Num(1), Num(2)}}

noLocals == [i |-> 0]

VARIABLES path, opts, pc, locals, result

vars == <<path, opts, pc, locals, result>>

Init ==
  /\ path \in SeqsUpTo(ShapePoints, 0, MaxLen)
  /\ opts \in ShapeOptions
  /\ pc = "call"
  /\ locals = noLocals
  /\ result = noResult

InitCurve ==
  /\ path \in CurvePaths
  /\ opts \in CurveOptions
  /\ pc = "call"
  /\ locals = noLocals
  /\ result = noResult

\* lines 18-24
PassThrough ==
  /\ pc = "call"
  /\ tooShort(path)
  /\ result' = passThrough(path, opts)
  /\ pc' = "returned"
  /\ UNCHANGED <<path, opts, locals>>

\* lines 26-29
DimensionError ==
  /\ pc = "call"
  /\ ~tooShort(path)
  /\ dimensionError(path, opts)
  /\ result' = thrown
  /\ pc' = "thrown"
  /\ UNCHANGED <<path, opts, locals>>

\* lines 31-79
Setup ==
  /\ pc = "call"
  /\ ~tooShort(path)
  /\ ~dimensionError(path, opts)
  /\ locals' = setup(path, opts)
  /\ pc' = "loop"
  /\ UNCHANGED <<path, opts, result>>

\* lines 82-128, one iteration
Segment ==
  /\ pc = "loop"
  /\ locals.i < lastSegment(locals.n, opts.closed)
  /\ locals' = segment(opts, locals)
  /\ UNCHANGED <<path, opts, pc, result>>

\* lines 130-134
Return ==
  /\ pc = "loop"
  /\ ~(locals.i < lastSegment(locals.n, opts.closed))
  /\ result' = returnResult(opts, locals)
  /\ pc' = "returned"
  /\ UNCHANGED <<path, opts, locals>>

Next == PassThrough \/ DimensionError \/ Setup \/ Segment \/ Return

Spec == Init /\ [][Next]_vars

SpecCurve == InitCurve /\ [][Next]_vars

(***************************************************************************)
(* Properties                                                              *)
(***************************************************************************)
Started == pc \in {"loop", "returned"} /\ Len(path) >= 2
Returned == pc = "returned" /\ Len(path) >= 2

\* C1: a call on n >= 2 points with samples = k returns (n-1)*k points when
\* open without the original endpoints, (n-1)*k + 2 with them, and n*k when
\* closed, whatever includeOriginal, endpointMode and includeMeta are.
C1_OutputLength ==
  Returned =>
    Len(result.points) =
      IF opts.closed THEN Len(path) * opts.samples
      ELSE (Len(path) - 1) * opts.samples
           + (IF opts.includeOriginal THEN 2 ELSE 0)

C1_Witness ==
  /\ Returned
  /\ Len(path) = 3 /\ opts.samples = 2
  /\ opts.closed /\ opts.includeOriginal /\ opts.includeMeta
  /\ opts.endpointMode = "extrapolate"
  /\ Len(result.points) = 6

\* C2: a call on 0 or 1 points raises no error under any configuration and
\* returns the points of the path in order; meta is empty and
\* segmentStartIndices is [0] exactly when includeMeta, both absent otherwise.
C2_PassThrough ==
  Len(path) < 2 =>
    /\ pc \in {"call", "returned"}
    /\ pc = "returned" =>
         /\ result.status = "returned"
         /\ result.points = path
         /\ result.meta = (IF opts.includeMeta THEN Present(<<>>) ELSE Absent)
         /\ result.segmentStartIndices =
              (IF opts.includeMeta THEN Present(<<0>>) ELSE Absent)

C2_Witness ==
  /\ pc = "returned"
  /\ Len(path) = 1 /\ Len(path[1]) = 1
  /\ opts.dimension = Num(2)
  /\ opts.includeMeta
  /\ result.points = path
  /\ result.segmentStartIndices = Present(<<0>>)

SomePointShort ==
  /\ opts.dimension # Undefined
  /\ \E j \in 1..Len(path) : Len(path[j]) < opts.dimension[1]

FailedWithNothing ==
  /\ pc = "thrown"
  /\ result.status = "thrown"
  /\ result.points = <<>> /\ result.meta = Absent
  /\ result.segmentStartIndices = Absent
  /\ locals = noLocals

\* C3 as claimed: whenever dimension is given and some point of the path, of
\* any length, has fewer coordinates, the call fails with the dimension error
\* and has produced nothing.
C3_AnyLength == (SomePointShort /\ pc # "call") => FailedWithNothing

\* C3: whenever dimension is given and some point of a path of n >= 2 points
\* has fewer coordinates, the call fails with the dimension error and has
\* produced no point, metadata or index.
C3_DimensionError ==
  (SomePointShort /\ Len(path) >= 2 /\ pc # "call") => FailedWithNothing

C3_Witness ==
  /\ pc = "thrown"
  /\ Len(path) = 3
  /\ opts.dimension = Num(2)
  /\ Len(path[1]) = 2 /\ Len(path[2]) = 2 /\ Len(path[3]) = 1
  /\ result.status = "thrown"

\* C4 as claimed: without dimension the effective dimension is the length of
\* the first point, and a path with a later point shorter than the first ends
\* in a validation failure before any sample is computed.
C4_RaggedRejected ==
  /\ (Started /\ opts.dimension = Undefined) => locals.dim = Len(path[1])
  /\ (/\ opts.dimension = Undefined
      /\ \E j \in 2..Len(path) : Len(path[j]) < Len(path[1]))
       => pc \in {"call", "thrown"}

\* the spec's mapping of the names to alpha
NamedAlpha(q) ==
  CASE q = "uniform" -> Num(0)
    [] q = "chordal" -> Num(1)
    [] OTHER -> Rat(1, 2)

\* C5: the alpha used is the explicit alpha whenever one is given (0
\* included), whatever the name, and else 0, 1, 0.5 for uniform, chordal and
\* centripetal or an unknown name; so a call with a name returns what the
\* same call with that alpha returns, and a call with an alpha returns the
\* same under every name.
C5_AlphaResolution ==
  /\ Started =>
       locals.finalAlpha =
         (IF opts.alpha # Undefined THEN opts.alpha
          ELSE NamedAlpha(opts.parametrization))
  /\ (Returned /\ opts.alpha = Undefined) =>
       result = catmullRom(path, [opts EXCEPT !.alpha = NamedAlpha(opts.parametrization)])
  /\ (Returned /\ opts.alpha # Undefined) =>
       \A q \in Parametrizations \ {opts.parametrization} :
          result = catmullRom(path, [opts EXCEPT !.parametrization = q])

C5_Witness ==
  /\ Returned
  /\ opts.alpha = Num(0) /\ opts.parametrization = "chordal"
  /\ locals.finalAlpha = Num(0)
  /\ result # catmullRom(path, [opts EXCEPT !.alpha = Num(1)])

\* every point of the path has the coordinates the call reads
WellFormed ==
  /\ Len(path) >= 2
  /\ \A j \in 1..Len(path) : Len(path[j]) >= effectiveDim(path, opts.dimension)

FinitePoint(p, dim) == Len(p) = dim /\ \A c \in 1..dim : IsFinite(p[c])

\* C6: on a path of n >= 2 points with finite coordinates, coincident points
\* included, no lerp divides by a denominator of magnitude below epsilon, no
\* error is raised and every output coordinate is a finite number.
C6_NoSmallDivisor ==
  WellFormed =>
    /\ pc # "thrown"
    /\ pc \in {"loop", "returned"} =>
         /\ \A d \in locals.divisors : LessEq(opts.epsilon, Abs(d))
         /\ \A j \in 1..Len(locals.out) : FinitePoint(locals.out[j], locals.dim)
    /\ pc = "returned" =>
         \A j \in 1..Len(result.points) : FinitePoint(result.points[j], locals.dim)

\* coincident consecutive points made a lerp interval degenerate
C6_Witness ==
  /\ pc = "returned" /\ WellFormed
  /\ path[1] = path[2]
  /\ \E j \in 1..Len(locals.knots) : locals.knots[j][2] = locals.knots[j][3]
  /\ Len(result.points) > 2
  /\ locals.divisors # {}

\* every point with one more coordinate
Widen(q) == [j \in 1..Len(q) |-> Append(q[j], Num(4))]

\* C7: with dimension = d, paths that agree on the first d coordinates of
\* every point give the same result (a path, the path cut to d coordinates
\* and the path with a further coordinate give the same), and every returned
\* point has exactly d coordinates.
C7_DimensionClamp ==
  (Returned /\ opts.dimension # Undefined) =>
    LET d == opts.dimension[1] IN
    /\ \A j \in 1..Len(result.points) : Len(result.points[j]) = d
    /\ result = catmullRom(clampPoints(path, d), opts)
    /\ result = catmullRom(Widen(path), opts)

C7_Witness ==
  /\ Returned
  /\ opts.dimension = Num(1)
  /\ Len(path) = 3
  /\ path[2] = <<Num(0), Num(0)>> /\ path[3] = <<Num(0), Num(4)>>
  /\ opts.includeOriginal
  /\ \A j \in 1..Len(result.points) : Len(result.points[j]) = 1

\* C8 as claimed: no returned point is an object of the input path.
C8_FreshPoints ==
  pc = "returned" => \A j \in 1..Len(result.refs) : result.refs[j] = 0

\* the index in meta of sample s of segment i
MetaIndex(i, s) ==
  (IF ~opts.closed /\ opts.includeOriginal THEN 1 ELSE 0) + i * opts.samples + s

\* C9 as claimed: with includeMeta every metadata entry has a defined u in
\* [0, 1], sample s of a segment has u = s/samples, and the guarded knot
\* difference t2 - t1 that u divides by is not zero.
C9_MetaU ==
  (Started /\ WellFormed /\ opts.includeMeta) =>
    /\ \A j \in 1..Len(locals.meta[1]) :
         LET u == locals.meta[1][j].u IN
         IsFinite(u) /\ LessEq(Num(0), u) /\ LessEq(u, Num(1))
    /\ \A i \in 0..(locals.i - 1) : \A s \in 1..opts.samples :
         locals.meta[1][MetaIndex(i, s)].u = Rat(s, opts.samples)
    /\ \A j \in 1..Len(locals.knots) : locals.knots[j][3] # locals.knots[j][2]

\* C10: with includeMeta, meta has one entry per returned point in order:
\* sample j of segment i is tagged i, tags never decrease, and on an open curve
\* with includeOriginal the first point is the first real point tagged
\* (0, u = 0) and the last the last real point tagged (final segment, u = 1).
\* Without includeMeta, meta and segmentStartIndices are absent.
C10_MetaParallel ==
  Returned =>
    IF ~opts.includeMeta
    THEN result.meta = Absent /\ result.segmentStartIndices = Absent
    ELSE
      LET m == result.meta[1]
          n == Len(path)
          last == Len(result.points)
      IN
      /\ IsPresent(result.meta) /\ IsPresent(result.segmentStartIndices)
      /\ Len(m) = last
      /\ \A i \in 0..(lastSegment(n, opts.closed) - 1) : \A s \in 1..opts.samples :
           /\ MetaIndex(i, s) <= last
           /\ m[MetaIndex(i, s)].segment = i
      /\ \A j \in 1..(last - 1) : m[j].segment <= m[j + 1].segment
      /\ (~opts.closed /\ opts.includeOriginal) =>
           /\ result.points[1] = Slice(path[1], locals.dim)
           /\ m[1] = [segment |-> 0, u |-> Num(0)]
           /\ result.points[last] = Slice(path[n], locals.dim)
           /\ m[last] = [segment |-> n - 2, u |-> Num(1)]

C10_Witness ==
  /\ Returned
  /\ opts.includeMeta /\ opts.includeOriginal /\ ~opts.closed
  /\ Len(path) = 3 /\ opts.samples = 2
  /\ Len(result.meta[1]) = 6
  /\ result.meta[1][6] = [segment |-> 1, u |-> Num(1)]
  /\ result.meta[1][3].segment = 0 /\ result.meta[1][4].segment = 1

\* C11 as claimed: with includeMeta, segmentStartIndices has one entry per
\* segment (n-1 when open, n when closed), and entry i is the index in the
\* returned points of the first sample of segment i: i*samples, plus 1 on an
\* open curve with includeOriginal, for every closed and includeOriginal.
C11_SegmentStarts ==
  (Returned /\ opts.includeMeta) =>
    LET starts == result.segmentStartIndices[1]
        segments == lastSegment(Len(path), opts.closed)
    IN
    /\ IsPresent(result.segmentStartIndices)
    /\ Len(starts) = segments
    /\ \A i \in 0..(segments - 1) : starts[i + 1] = MetaIndex(i, 1) - 1

\* C12 as claimed: the guarded knots (t0, t1', t2', t3') of every segment,
\* whatever the raw increments, satisfy t1' - t0 >= epsilon,
\* t2' - t1' >= epsilon and t3' - t2' >= epsilon (a chained guard).
C12_ChainedGuard ==
  (Started /\ WellFormed) =>
    \A j \in 1..Len(locals.knots) :
      LET k == locals.knots[j] IN
      /\ LessEq(opts.epsilon, Sub(k[2], k[1]))
      /\ LessEq(opts.epsilon, Sub(k[3], k[2]))
      /\ LessEq(opts.epsilon, Sub(k[4], k[3]))

\* C13 as claimed: the last sample (s = samples) of every segment i equals,
\* coordinate by coordinate, the end control point p2 of its window (real
\* point i+1, or (i+1) mod n when closed), and no sample of the segment is
\* taken at the near boundary t = t1.
C13_FarBoundary ==
  (Started /\ WellFormed) =>
    \A i \in 0..(locals.i - 1) :
      LET far == IF opts.closed THEN (i + 1) % locals.n ELSE i + 1
          k == locals.knots[i + 1]
      IN
      /\ locals.out[MetaIndex(i, opts.samples)] = At(locals.pts, far)
      /\ \A s \in 1..opts.samples : sampleT(k, s, opts.samples) # k[2]

\* C14: on a path of n >= 2 points the window of every segment i is read
\* inside the point sequence and is (q(i-1), pts[i], q(i+1), q(i+2)), where
\* q wraps modulo n when closed, and when open q(-1) and q(n) are the virtual
\* points: pts[0] and pts[n-1] under 'duplicate', 2*pts[0] - pts[1] and
\* 2*pts[n-1] - pts[n-2] under 'extrapolate'.
C14_Window ==
  Started =>
    /\ Len(locals.windows) = locals.i
    /\ locals.i <= (IF opts.closed THEN locals.n ELSE locals.n - 1)
    /\ \A i \in 0..(locals.i - 1) :
         LET n == locals.n
             pts == locals.pts
             twice(a, b) ==
               [c \in 1..locals.dim |->
                  Sub(Mul(Num(2), At(a, c - 1)), At(b, c - 1))]
             q(j) ==
               IF opts.closed THEN pts[(j % n) + 1]
               ELSE IF j = -1
                 THEN (IF opts.endpointMode = "duplicate" THEN pts[1]
                       ELSE twice(pts[1], pts[2]))
               ELSE IF j = n
                 THEN (IF opts.endpointMode = "duplicate" THEN pts[n]
                       ELSE twice(pts[n], pts[n - 1]))
               ELSE pts[j + 1]
             w == locals.windows[i + 1]
         IN
         /\ \A c \in 1..4 :
              w.indices[c] >= 0 /\ w.indices[c] < Len(locals.paddedPts)
         /\ w.points = <<q(i - 1), pts[i + 1], q(i + 1), q(i + 2)>>

\* a closed curve of 3 points with distinct ends has run all its segments:
\* segment 0 took pts[n-1] as p0 and the last segment wrapped to pts[0], pts[1]
C14_Witness ==
  /\ Started /\ opts.closed
  /\ locals.n = 3 /\ locals.i = 3
  /\ locals.pts[3] # locals.pts[1]
  /\ locals.windows[1].points[1] = locals.pts[3]
  /\ locals.windows[3].points[3] = locals.pts[1]
  /\ locals.windows[3].points[4] = locals.pts[2]

====
